---- MODULE Spec2Model ----
(***************************************************************************)
(* A model of the nrfis mobile front-end: the Screen container             *)
(* (frontend/app/src/components/Screen.js), with its two effects, its      *)
(* live-data WebSocket, its asynchronous refresh and sensor-name fetch,    *)
(* the colour mapping and the zoom of the Model view, and the window of    *)
(* the Chart view (frontend/app/src/components/Chart.js).                  *)
(*                                                                         *)
(* React semantics used by the model.  A handler (an event handler, an     *)
(* effect, the continuation of an await) reads the state of the render it  *)
(* was created in (its closure) and queues state updates.  After a handler *)
(* the component renders again; the effects whose dependencies differ from *)
(* those of the previous render run (the cleanup of the previous run       *)
(* first), and the component renders until no effect changes the state.    *)
(* One action of the model is one handler together with the renders and    *)
(* effects it causes.                                                      *)
(***************************************************************************)
EXTENDS Integers, Sequences, FiniteSets, TLC

VARIABLES
    data,           \* useState: the fetched samples
    mode,           \* useState: 0 for Model, 1 for Chart
    live,           \* useState: the package is reported live
    liveData,       \* useState: the samples streamed by the WebSocket
    liveMode,       \* useState: TRUE for Live, FALSE for Historical
    dataRange,      \* useState: [min, max] of the fetched readings
    isLoading,      \* useState
    screenState,    \* useState: dataType, liveDataType, averagingWindow, ...
    chartOptions,   \* useState: sensors, showTemperature, temperatureData
    modelOptions,   \* useState: showContext, colourMode, scale
    props,          \* props of Screen: packageServerName
    liveStatus,     \* value of LiveStatusContext: packages
    sockets,        \* the WebSockets that are open
    wsCleanup,      \* id of the socket the registered effect cleanup closes, 0: none
    sensorCalls,    \* setSensorNames calls awaiting fetchSensorNames
    refreshCalls,   \* refresh calls awaiting fetchData or fetchTemperatureData
    alert,          \* title of the Alert raised by the last step, "none" if none
    received,       \* history: the samples handled by ws.onmessage, in arrival order
    index,          \* useState of Model: the sample the slider selects (from 0)
    sensorColours,  \* useState of Model: the colour of every sensor
    zoom,           \* useState of Model
    baseZoom,       \* useState of Model: the zoom the pinch in progress started from
    chart           \* useState of Chart: width, timestamps, minX, maxX, baseRange,
                    \* minInterval

screenVars == <<data, mode, live, liveData, liveMode, dataRange, isLoading,
                screenState, chartOptions, modelOptions, props, liveStatus,
                sockets, wsCleanup, sensorCalls, refreshCalls, alert>>

modelVars == <<index, sensorColours, zoom, baseZoom>>

chartVars == <<chart>>

vars == <<screenVars, received, modelVars, chartVars>>

(***************************************************************************)
(* Bounds of the model and the values inputs are drawn from.               *)
(***************************************************************************)
\* refresh calls awaiting at the same time
MaxRefreshCalls == 2
\* setSensorNames calls awaiting at the same time
MaxSensorCalls == 1
\* samples the Screen specification lets one live session buffer
MaxLiveData == 2
\* messages the live-data specification lets the WebSocket deliver
MaxMessages == 33

\* the largest reading of the samples the Model specification colours
MaxReading == 4

\* the window of the Chart is followed while its ends are fractions with a
\* denominator up to MaxDenominator
MaxDenominator == 2

\* the zoom of the Model is followed while it is a fraction with terms up to
\* MaxTerm
MaxTerm == 64

\* liveData.length > 30
LiveBufferLimit == 30

Packages == {"p1", "p2"}
\* the values of liveStatus.packages
LiveStatuses == {{}, {"p1"}, {"p1", "p2"}}
LiveDataTypes == {"str", "raw"}
DataTypes == {"str", "raw"}
AveragingWindows == {"hour"}
StartTimes == {"t0"}
EndTimes == {"t9"}

\* ../utils is imported by Screen.js and is not part of the sources
modelColourScale == [str |-> <<-200, 200>>, raw |-> <<1500, 1600>>]
chartColours == <<"red", "green", "blue">>

\* Date.parse on the timestamps the server sends
DateParse(iso) ==
    CASE iso = "1970-01-01T00:00:01Z" -> 1000
      [] iso = "1970-01-01T00:00:02Z" -> 2000
      [] OTHER -> 0

Reading(name, value) == [name |-> name, value |-> value]
ServerSample(iso, readings) == [timestamp |-> iso, readings |-> readings]

\* what fetchData can resolve to: a list of samples, each a timestamp and
\* the readings of the sensors in key order
FetchDataResults ==
    { <<>>,
      << ServerSample("1970-01-01T00:00:01Z",
                      <<Reading("r1", 1510), Reading("r2", 1520),
                        Reading("r3", 1530), Reading("r4", 1540)>>) >> }

\* fetchData results of two samples with two sensors each, the readings
\* drawn from RangeReadings
RangeReadings == {-1, 0, 2}

RangeDataResults ==
    { << ServerSample("1970-01-01T00:00:01Z", <<Reading("r1", a), Reading("r2", b)>>),
         ServerSample("1970-01-01T00:00:02Z", <<Reading("r1", c), Reading("r2", d)>>) >> :
        a \in RangeReadings, b \in RangeReadings,
        c \in RangeReadings, d \in RangeReadings }

FetchTemperatureResults ==
    { <<[temperature |-> 20, timestamp |-> 1000]>> }

FetchSensorNamesResults ==
    { <<"r1", "r2", "r3", "r4">> }

(***************************************************************************)
(* Exact numbers.  The views divide and take square roots; the model keeps *)
(* their numbers as fractions <<n, d>> in lowest terms with d > 0, and     *)
(* Infinity as <<1, 0>>, which the comparisons below order above every     *)
(* fraction.                                                               *)
(***************************************************************************)
RECURSIVE GCD(_, _)
GCD(a, b) == IF b = 0 THEN a ELSE GCD(b, a % b)

QAbsInt(n) == IF n < 0 THEN -n ELSE n

Q(n, d) ==
    LET g == GCD(QAbsInt(n), QAbsInt(d))
    IN  IF d < 0 THEN <<(-n) \div g, (-d) \div g>> ELSE <<n \div g, d \div g>>

QInt(n) == <<n, 1>>
Infinity == <<1, 0>>
QAdd(x, y) == Q(x[1] * y[2] + y[1] * x[2], x[2] * y[2])
QSub(x, y) == Q(x[1] * y[2] - y[1] * x[2], x[2] * y[2])
QMul(x, y) == Q(x[1] * y[1], x[2] * y[2])
QDiv(x, y) == Q(x[1] * y[2], x[2] * y[1])
QAbs(x) == <<QAbsInt(x[1]), x[2]>>
QLess(x, y) == x[1] * y[2] < y[1] * x[2]
QLeq(x, y) == x[1] * y[2] <= y[1] * x[2]

\* the least of a list of numbers, Infinity for the empty list
RECURSIVE MathMin(_)
MathMin(xs) ==
    IF xs = <<>> THEN Infinity
    ELSE LET rest == MathMin(Tail(xs))
         IN  IF QLess(Head(xs), rest) THEN Head(xs) ELSE rest

\* the square root of a fraction whose terms are squares
ISqrt(n) == CHOOSE k \in 0..n : k * k = n
QSqrt(x) == <<ISqrt(x[1]), ISqrt(x[2])>>

\* the state of the hooks of Model and of Chart before their first render
InitialZoom == QInt(1)

InitialChart ==
    [width |-> 0, timestamps |-> <<>>, minX |-> QInt(0), maxX |-> QInt(0),
     baseRange |-> <<QInt(0), QInt(0)>>, minInterval |-> QInt(0)]

(***************************************************************************)
(* The state of the hooks as one record: what a render closes over.        *)
(***************************************************************************)
Hooks ==
    [data |-> data, mode |-> mode, live |-> live, liveData |-> liveData,
     liveMode |-> liveMode, dataRange |-> dataRange, isLoading |-> isLoading,
     screenState |-> screenState, chartOptions |-> chartOptions,
     modelOptions |-> modelOptions]

InitialHooks ==
    [data |-> <<>>, mode |-> 0, live |-> FALSE, liveData |-> <<>>,
     liveMode |-> FALSE, dataRange |-> <<>>, isLoading |-> FALSE,
     screenState |-> [dataType |-> "", liveDataType |-> "str",
                      averagingWindow |-> "", startTime |-> "", endTime |-> ""],
     chartOptions |-> [sensors |-> <<>>, showTemperature |-> FALSE,
                       temperatureData |-> <<>>],
     modelOptions |-> [showContext |-> TRUE, colourMode |-> 1,
                       scale |-> <<-200, 200>>]]

\* the hooks together with what effects reach outside the hooks
World ==
    [st |-> Hooks, sockets |-> sockets, wsCleanup |-> wsCleanup,
     sensorCalls |-> sensorCalls]

InitialWorld ==
    [st |-> InitialHooks, sockets |-> {}, wsCleanup |-> 0, sensorCalls |-> <<>>]

(***************************************************************************)
(* The live-status effect.  r is the render the effect closes over, st the *)
(* state its updates are queued on.                                        *)
(***************************************************************************)
\* the block of the effect that runs when the render is in live mode
liveModeOptions(r, st) ==
    [st EXCEPT
        !.modelOptions =
            [r.modelOptions EXCEPT
                !.colourMode = 1,
                !.scale = modelColourScale[r.screenState.liveDataType]],
        !.chartOptions = [r.chartOptions EXCEPT !.showTemperature = FALSE],
        !.mode = IF r.screenState.liveDataType = "raw" THEN 1 ELSE @]

liveStatusEffectStaysLive(r, st, packages, packageServerName) ==
    LET s1 == [st EXCEPT !.live = packageServerName \in packages]
    IN  IF r.liveMode THEN liveModeOptions(r, s1) ELSE s1

liveStatusEffect(r, st, packages, packageServerName) ==
    LET isLive == packageServerName \in packages
        s1 == [st EXCEPT !.live = isLive]
        s2 == IF r.liveMode THEN liveModeOptions(r, s1) ELSE s1
    IN  IF ~isLive THEN [s2 EXCEPT !.liveMode = FALSE] ELSE s2

(***************************************************************************)
(* The WebSocket effect.                                                   *)
(***************************************************************************)
FreshSocketId(open) ==
    LET free == {i \in 1..(Cardinality(open) + 1) : \A s \in open : s.id # i}
    IN  CHOOSE i \in free : \A j \in free : i <= j

wsCloseForgotten(open, id) == open

\* ws.close()
wsClose(open, id) == {s \in open : s.id # id}

\* the function the effect returns
webSocketCleanup(w) ==
    [w EXCEPT !.sockets = wsClose(@, w.wsCleanup),
              !.wsCleanup = 0,
              !.st.liveData = <<>>]

\* the synchronous part of setSensorNames: the call awaits fetchSensorNames
\* with the chartOptions of the render it was called in.  A call keeps of its
\* closure what its continuation reads: the fields the continuation
\* overwrites are blanked.
setSensorNamesCall(r) ==
    [chartOptions |-> [r.chartOptions EXCEPT !.showTemperature = FALSE,
                                             !.sensors = <<>>]]

webSocketEffect(r, w, packageServerName) ==
    IF r.liveMode
    THEN LET id == FreshSocketId(w.sockets)
         IN  [w EXCEPT
                !.sockets = @ \cup {[id |-> id,
                                     dataType |-> r.screenState.liveDataType,
                                     packageServerName |-> packageServerName]},
                !.sensorCalls = Append(@, setSensorNamesCall(r)),
                !.wsCleanup = id]
    ELSE w

(***************************************************************************)
(* One render and the effects it runs, then the renders these cause.       *)
(***************************************************************************)
RenderPass(w, runLiveStatus, runWebSocket, packages, packageServerName) ==
    LET r  == w.st
        w1 == IF runWebSocket /\ w.wsCleanup # 0 THEN webSocketCleanup(w) ELSE w
        w2 == IF runLiveStatus
              THEN [w1 EXCEPT !.st = liveStatusEffect(r, @, packages, packageServerName)]
              ELSE w1
    IN  IF runWebSocket THEN webSocketEffect(r, w2, packageServerName) ELSE w2

RECURSIVE Commit(_, _, _, _, _, _)
Commit(prev, w, packages, packageServerName, statusChanged, nameChanged) ==
    LET r == w.st
        typeChanged == r.screenState.liveDataType # prev.screenState.liveDataType
        runLiveStatus == statusChanged \/ typeChanged \/ nameChanged
        runWebSocket == r.liveMode # prev.liveMode \/ typeChanged \/ nameChanged
        w1 == RenderPass(w, runLiveStatus, runWebSocket, packages, packageServerName)
    IN  IF w1.st = r THEN w1
        ELSE Commit(r, w1, packages, packageServerName, FALSE, FALSE)

\* the variables after a step that leaves the world as w
Install(world, calls, raised) ==
    \E w \in {world} :
    /\ Len(w.sensorCalls) <= MaxSensorCalls
    /\ refreshCalls' = calls
    /\ data' = w.st.data
    /\ mode' = w.st.mode
    /\ live' = w.st.live
    /\ liveData' = w.st.liveData
    /\ liveMode' = w.st.liveMode
    /\ dataRange' = w.st.dataRange
    /\ isLoading' = w.st.isLoading
    /\ screenState' = w.st.screenState
    /\ chartOptions' = w.st.chartOptions
    /\ modelOptions' = w.st.modelOptions
    /\ sockets' = w.sockets
    /\ wsCleanup' = w.wsCleanup
    /\ sensorCalls' = w.sensorCalls
    /\ alert' = raised

\* a handler that leaves the hooks as st, with the renders that follow
Handle(st, calls, raised) ==
    Install(Commit(Hooks, [World EXCEPT !.st = st],
                   liveStatus.packages, props.packageServerName, FALSE, FALSE),
            calls, raised)

(***************************************************************************)
(* The state after the component has mounted.                              *)
(***************************************************************************)
Init ==
    /\ props \in [packageServerName : Packages]
    /\ liveStatus \in [packages : LiveStatuses]
    /\ \E w \in {Commit(InitialHooks, InitialWorld, liveStatus.packages,
                         props.packageServerName, TRUE, TRUE)} :
           /\ data = w.st.data
           /\ mode = w.st.mode
           /\ live = w.st.live
           /\ liveData = w.st.liveData
           /\ liveMode = w.st.liveMode
           /\ dataRange = w.st.dataRange
           /\ isLoading = w.st.isLoading
           /\ screenState = w.st.screenState
           /\ chartOptions = w.st.chartOptions
           /\ modelOptions = w.st.modelOptions
           /\ sockets = w.sockets
           /\ wsCleanup = w.wsCleanup
           /\ sensorCalls = w.sensorCalls
    /\ refreshCalls = <<>>
    /\ alert = "none"
    /\ received = <<>>
    /\ index = 0
    /\ sensorColours = <<>>
    /\ zoom = InitialZoom
    /\ baseZoom = InitialZoom
    /\ chart = InitialChart

(***************************************************************************)
(* The context and the props change.                                       *)
(***************************************************************************)
LiveStatusUpdate ==
    \E packages \in LiveStatuses :
        /\ liveStatus' = [packages |-> packages]
        /\ Install(Commit(Hooks, World, packages, props.packageServerName,
                          TRUE, FALSE), refreshCalls, "none")
        /\ UNCHANGED <<props, received, modelVars, chartVars>>

PackageServerNameChange ==
    \E name \in Packages \ {props.packageServerName} :
        /\ props' = [packageServerName |-> name]
        /\ Install(Commit(Hooks, World, liveStatus.packages, name, FALSE, TRUE),
                   refreshCalls, "none")
        /\ UNCHANGED <<liveStatus, received, modelVars, chartVars>>

(***************************************************************************)
(* The Menu calls the setters it is given.                                 *)
(***************************************************************************)
MenuSetMode ==
    \E m \in {0, 1} :
        /\ Handle([Hooks EXCEPT !.mode = m], refreshCalls, "none")
        /\ UNCHANGED <<props, liveStatus, received, modelVars, chartVars>>

MenuSetLiveMode ==
    \E b \in BOOLEAN :
        /\ Handle([Hooks EXCEPT !.liveMode = b], refreshCalls, "none")
        /\ UNCHANGED <<props, liveStatus, received, modelVars, chartVars>>

MenuSetLiveDataType ==
    \E t \in LiveDataTypes :
        /\ Handle([Hooks EXCEPT !.screenState.liveDataType = t], refreshCalls, "none")
        /\ UNCHANGED <<props, liveStatus, received, modelVars, chartVars>>

MenuSetShowTemperature ==
    \E b \in BOOLEAN :
        /\ Handle([Hooks EXCEPT !.chartOptions.showTemperature = b], refreshCalls, "none")
        /\ UNCHANGED <<props, liveStatus, received, modelVars, chartVars>>

MenuSetShowContext ==
    \E b \in BOOLEAN :
        /\ Handle([Hooks EXCEPT !.modelOptions.showContext = b], refreshCalls, "none")
        /\ UNCHANGED <<props, liveStatus, received, modelVars, chartVars>>

MenuSetColourMode ==
    \E c \in {0, 1} :
        /\ Handle([Hooks EXCEPT !.modelOptions.colourMode = c], refreshCalls, "none")
        /\ UNCHANGED <<props, liveStatus, received, modelVars, chartVars>>

(***************************************************************************)
(* setSensorNames after its await.                                          *)
(***************************************************************************)
\* the chart's sensor list: the first three selected, colours in rotation
sensorList(sensorNames) ==
    [i \in 1..Len(sensorNames) |->
        [name |-> sensorNames[i],
         isSelected |-> (i - 1) < 3,
         colour |-> chartColours[((i - 1) % Len(chartColours)) + 1]]]

setSensorNamesDone(st, call, sensorNames) ==
    [st EXCEPT !.chartOptions =
        [call.chartOptions EXCEPT !.showTemperature = FALSE,
                                  !.sensors = sensorList(sensorNames)]]

setSensorNamesCatchAlertOnly(st) == st

setSensorNamesCatch(st) == [st EXCEPT !.liveMode = FALSE]

Remove(seq, i) == SubSeq(seq, 1, i - 1) \o SubSeq(seq, i + 1, Len(seq))

FetchSensorNamesResolved ==
    \E i \in 1..Len(sensorCalls), sensorNames \in FetchSensorNamesResults :
        /\ Install(Commit(Hooks,
                          [World EXCEPT
                              !.st = setSensorNamesDone(Hooks, sensorCalls[i], sensorNames),
                              !.sensorCalls = Remove(@, i)],
                          liveStatus.packages, props.packageServerName, FALSE, FALSE),
                   refreshCalls, "none")
        /\ UNCHANGED <<props, liveStatus, received, modelVars, chartVars>>

FetchSensorNamesRejected ==
    \E i \in 1..Len(sensorCalls) :
        /\ Install(Commit(Hooks,
                          [World EXCEPT !.st = setSensorNamesCatch(Hooks),
                                        !.sensorCalls = Remove(@, i)],
                          liveStatus.packages, props.packageServerName, FALSE, FALSE),
                   refreshCalls, "Live data error")
        /\ UNCHANGED <<props, liveStatus, received, modelVars, chartVars>>

(***************************************************************************)
(* The live-data WebSocket delivers a message.                             *)
(***************************************************************************)
onmessageUnbounded(buffer, newSample) == Append(buffer, newSample)

onmessage(buffer, newSample) ==
    IF Len(buffer) > LiveBufferLimit THEN <<newSample>> ELSE Append(buffer, newSample)

\* event.data of a message of socket ws: a JSON object, package -> sample.
\* A sample names the stream it belongs to and carries a reading.
EventData(ws, reading) ==
    [p \in Packages |-> [package |-> p, dataType |-> ws.dataType, value |-> reading]]

newSampleOf(ws, eventData) == eventData[ws.packageServerName]

LiveReadings == {5}

WsMessage ==
    \E ws \in sockets, reading \in LiveReadings :
        /\ Len(liveData) < MaxLiveData
        /\ Handle([Hooks EXCEPT
                      !.liveData = onmessage(@, newSampleOf(ws, EventData(ws, reading)))],
                  refreshCalls, "none")
        /\ UNCHANGED <<props, liveStatus, received, modelVars, chartVars>>

\* the same handler, with the samples it has handled recorded in arrival
\* order; the reading of a message is its arrival number
WsMessageLogged ==
    \E ws \in sockets :
        /\ Len(received) < MaxMessages
        /\ LET newSample == newSampleOf(ws, EventData(ws, Len(received) + 1))
           IN  /\ Handle([Hooks EXCEPT !.liveData = onmessage(@, newSample)],
                         refreshCalls, "none")
               /\ received' = Append(received, newSample)
        /\ UNCHANGED <<props, liveStatus, modelVars, chartVars>>

(***************************************************************************)
(* refresh.                                                                *)
(***************************************************************************)
Min(S) == CHOOSE x \in S : \A y \in S : x <= y
Max(S) == CHOOSE x \in S : \A y \in S : x >= y

\* what a failed refresh is said to leave alone
Watched(st) ==
    <<st.data, st.dataRange, st.mode, st.screenState, st.chartOptions, st.modelOptions>>

\* the call up to its first await: it awaits fetchData with the state of the
\* render it was called in (of which it keeps what its continuations read).
\* untouched records whether every step of the call so far has left the
\* watched state as the step found it.
refreshCall(r, dataType, averagingWindow, startTime, endTime) ==
    [screenState |-> [r.screenState EXCEPT !.dataType = "", !.averagingWindow = "",
                                           !.startTime = "", !.endTime = ""],
     chartOptions |-> [r.chartOptions EXCEPT !.sensors = <<>>,
                                             !.temperatureData = <<>>],
     modelOptions |-> [r.modelOptions EXCEPT !.scale = <<>>],
     dataType |-> dataType, averagingWindow |-> averagingWindow,
     startTime |-> startTime, endTime |-> endTime,
     awaits |-> "fetchData", data |-> <<>>, dataRange |-> <<>>,
     untouched |-> TRUE]

parseTimestamps(samples) ==
    [k \in 1..Len(samples) |-> [samples[k] EXCEPT !.timestamp = DateParse(@)]]

allReadings(samples) ==
    {samples[k].readings[j].value :
        k \in 1..Len(samples), j \in 1..Len(samples[1].readings)}

rangeOf(samples) == <<Min(allReadings(samples)), Max(allReadings(samples))>>

\* from the resolution of fetchData to the await of fetchTemperatureData
refreshFetched(st, call, samples) ==
    [st EXCEPT
        !.data = parseTimestamps(samples),
        !.dataRange = rangeOf(samples),
        !.mode = IF call.dataType = "raw" THEN 1 ELSE @,
        !.screenState =
            [call.screenState EXCEPT !.dataType = call.dataType,
                                     !.averagingWindow = call.averagingWindow,
                                     !.startTime = call.startTime,
                                     !.endTime = call.endTime]]

\* from the resolution of fetchTemperatureData to the end of the try block
refreshDone(st, call, temperatureData) ==
    [st EXCEPT
        !.chartOptions =
            [call.chartOptions EXCEPT
                !.sensors = sensorList([j \in 1..Len(call.data[1].readings) |->
                                           call.data[1].readings[j].name]),
                !.temperatureData = temperatureData],
        !.modelOptions =
            [call.modelOptions EXCEPT
                !.scale = IF call.modelOptions.colourMode # 0
                          THEN modelColourScale[call.dataType]
                          ELSE call.dataRange]]

\* setIsLoading(false), the statement after the try block
refreshEnd(st) == [st EXCEPT !.isLoading = FALSE]

RefreshWithin(limit) ==
    \E dataType \in DataTypes, averagingWindow \in AveragingWindows,
       startTime \in StartTimes, endTime \in EndTimes :
        /\ Len(refreshCalls) < limit
        /\ Handle([Hooks EXCEPT !.isLoading = TRUE],
                  Append(refreshCalls,
                         refreshCall(Hooks, dataType, averagingWindow,
                                     startTime, endTime)),
                  "none")
        /\ UNCHANGED <<props, liveStatus, received, modelVars, chartVars>>

\* a refresh called while no other is awaiting
Refresh == RefreshWithin(1)

\* a refresh called while others may be awaiting: Screen does not guard the call
RefreshOverlapping == RefreshWithin(MaxRefreshCalls)

\* the catch block and the statement after it, for call i
RefreshCaught(i) ==
    /\ Handle(refreshEnd(Hooks), Remove(refreshCalls, i), "Refresh error")
    /\ UNCHANGED <<props, liveStatus, received, modelVars, chartVars>>

FetchDataFilled(i, samples) ==
    /\ i \in 1..Len(refreshCalls)
    /\ refreshCalls[i].awaits = "fetchData"
    /\ samples # <<>>
    /\ \E w \in {Commit(Hooks,
                        [World EXCEPT
                            !.st = refreshFetched(Hooks, refreshCalls[i], samples)],
                        liveStatus.packages, props.packageServerName, FALSE, FALSE)} :
           Install(w,
                   [refreshCalls EXCEPT
                       ![i].awaits = "fetchTemperatureData",
                       ![i].data = parseTimestamps(samples),
                       ![i].dataRange = rangeOf(samples),
                       ![i].untouched = @ /\ Watched(w.st) = Watched(Hooks)],
                   "none")
    /\ UNCHANGED <<props, liveStatus, received, modelVars, chartVars>>

\* fetchData resolves to an empty list: the call throws
FetchDataEmpty(i) ==
    /\ i \in 1..Len(refreshCalls)
    /\ refreshCalls[i].awaits = "fetchData"
    /\ <<>> \in FetchDataResults
    /\ RefreshCaught(i)

FetchDataFails(i) ==
    /\ i \in 1..Len(refreshCalls)
    /\ refreshCalls[i].awaits = "fetchData"
    /\ RefreshCaught(i)

FetchTemperatureFills(i, temperatureData) ==
    /\ i \in 1..Len(refreshCalls)
    /\ refreshCalls[i].awaits = "fetchTemperatureData"
    /\ Handle(refreshEnd(refreshDone(Hooks, refreshCalls[i], temperatureData)),
              Remove(refreshCalls, i), "none")
    /\ UNCHANGED <<props, liveStatus, received, modelVars, chartVars>>

FetchTemperatureFails(i) ==
    /\ i \in 1..Len(refreshCalls)
    /\ refreshCalls[i].awaits = "fetchTemperatureData"
    /\ RefreshCaught(i)

FetchDataResolved ==
    \E i \in 1..Len(refreshCalls) :
        \/ \E samples \in FetchDataResults : FetchDataFilled(i, samples)
        \/ FetchDataEmpty(i)

\* fetchData resolves to one of the two-sample results
FetchDataRanged ==
    \E i \in 1..Len(refreshCalls), samples \in RangeDataResults :
        FetchDataFilled(i, samples)

FetchDataRejected == \E i \in 1..Len(refreshCalls) : FetchDataFails(i)

FetchTemperatureResolved ==
    \E i \in 1..Len(refreshCalls), temperatureData \in FetchTemperatureResults :
        FetchTemperatureFills(i, temperatureData)

FetchTemperatureRejected == \E i \in 1..Len(refreshCalls) : FetchTemperatureFails(i)

(***************************************************************************)
(* The Model view: the colour of every sensor of the sample it shows.      *)
(* Numbers that mapColour divides are kept exact, as fractions <<n, d>>.   *)
(***************************************************************************)
Fraction(n, d) == <<n, d>>
OneMinus(q) == <<q[2] - q[1], q[2]>>
Times(q, k) == <<q[1] * k, q[2]>>

\* the template literal `hsl(${hue},100%,50%)`
hsl(hue) == [hue |-> hue, saturation |-> 100, lightness |-> 50]
grey == [keyword |-> "grey"]

mapColourRising(value, scale) ==
    LET min == scale[1]
        max == scale[2]
    IN  IF value < max /\ value > min
        THEN hsl(Times(Fraction(value - min, max - min), 270))
        ELSE grey

mapColour(value, scale) ==
    LET min == scale[1]
        max == scale[2]
    IN  IF value < max /\ value > min
        THEN hsl(Times(OneMinus(Fraction(value - min, max - min)), 270))
        ELSE grey

\* the sample the Model shows, <<>> (undefined) if there is none
shownSample ==
    IF liveMode
    THEN IF liveData # <<>> THEN <<liveData[Len(liveData)]>> ELSE <<>>
    ELSE IF index + 1 \in 1..Len(data) THEN <<data[index + 1]>> ELSE <<>>

\* Object.entries(sample): the timestamp and the readings
entries(sample) ==
    <<Reading("timestamp", sample.timestamp)>> \o sample.readings

\* the effect of Model that colours the sensors: the colours after it has run
\* with the sample shown and the scale given
colourEffect(shown, scale, colours) ==
    IF shown # <<>>
    THEN LET es == entries(shown[1])
         IN  [name \in {es[k].name : k \in 1..Len(es)} |->
                 LET k == CHOOSE j \in 1..Len(es) : es[j].name = name
                 IN  mapColour(es[k].value, scale)]
    ELSE colours

ModelReadings == -1..MaxReading
ModelScales == {<<lo, hi>> : lo \in {0, 1}, hi \in {3, MaxReading}}

ModelSample(time, a, b) ==
    [timestamp |-> time, readings |-> <<Reading("a", a), Reading("b", b)>>]

ModelData ==
    {<<ModelSample(1000, a1, b1), ModelSample(2000, a2, b2)>> :
        a1 \in ModelReadings, b1 \in ModelReadings, a2 \in {2}, b2 \in {2, 3}}

\* the Model is mounted with data and a scale
InitModel ==
    /\ props = [packageServerName |-> "p1"]
    /\ liveStatus = [packages |-> {}]
    /\ data \in ModelData
    /\ modelOptions \in [showContext : {TRUE}, colourMode : {1}, scale : ModelScales]
    /\ mode = InitialHooks.mode
    /\ live = InitialHooks.live
    /\ liveData = InitialHooks.liveData
    /\ liveMode = InitialHooks.liveMode
    /\ dataRange = rangeOf(data)
    /\ isLoading = InitialHooks.isLoading
    /\ screenState = InitialHooks.screenState
    /\ chartOptions = InitialHooks.chartOptions
    /\ sockets = {}
    /\ wsCleanup = 0
    /\ sensorCalls = <<>>
    /\ refreshCalls = <<>>
    /\ alert = "none"
    /\ received = <<>>
    /\ index = 0
    /\ sensorColours = colourEffect(<<data[1]>>, modelOptions.scale, <<>>)
    /\ zoom = InitialZoom
    /\ baseZoom = InitialZoom
    /\ chart = InitialChart

\* the Slider: onValueChange sets index, the effect colours the new sample
SliderChange ==
    \E value \in 0..(IF data = <<>> THEN 0 ELSE Len(data) - 1) :
        /\ index' = value
        /\ UNCHANGED <<screenVars, received, zoom, baseZoom, chartVars>>
        /\ sensorColours' = colourEffect(shownSample', modelOptions.scale, sensorColours)

\* props.modelOptions.scale changes, the effect colours the sample again
ScaleChange ==
    \E scale \in ModelScales :
        /\ modelOptions' = [modelOptions EXCEPT !.scale = scale]
        /\ sensorColours' = colourEffect(shownSample, scale, sensorColours)
        /\ UNCHANGED <<data, mode, live, liveData, liveMode, dataRange, isLoading,
                       screenState, chartOptions, props, liveStatus, sockets,
                       wsCleanup, sensorCalls, refreshCalls, alert, received, index,
                       zoom, baseZoom, chartVars>>

NextModel == SliderChange \/ ScaleChange

SpecModel == InitModel /\ [][NextModel]_vars

(***************************************************************************)
(* The Chart view: the window <<minX, maxX>> of the time axis, dragged and *)
(* pinched.  Timestamps are whole milliseconds.                            *)
(***************************************************************************)
ChartTimestamps == {<<0>>, <<0, 8>>, <<0, 2, 8>>, <<4, 8, 12, 20>>}
Widths == {4}
PinchScales == {Q(1, 2), Q(2, 1), Q(4, 3), Q(100, 101), Q(200, 201)}
PageXChanges == {-2, -1, 1, 2}
GestureStates == {"BEGAN", "ACTIVE"}

\* the differences of neighbouring timestamps: map(...).slice(1)
intervals(timestamps) ==
    [k \in 1..(Len(timestamps) - 1) |->
        QInt(timestamps[k + 1] - timestamps[k])]

\* the effect on [data] and the effect on [timestamps] it causes
timestampsEffect(c, timestamps) ==
    [c EXCEPT !.timestamps = timestamps,
              !.minX = QInt(timestamps[1]),
              !.maxX = QInt(timestamps[Len(timestamps)]),
              !.baseRange = <<QInt(timestamps[1]), QInt(timestamps[Len(timestamps)])>>,
              !.minInterval = MathMin(intervals(timestamps))]

handleResponderMoveUnchecked(c, pageXChange) ==
    LET change == QMul(QDiv(QInt(pageXChange), QInt(c.width)),
                       QSub(c.baseRange[2], c.baseRange[1]))
    IN  [c EXCEPT !.minX = QSub(c.minX, change), !.maxX = QSub(c.maxX, change)]

\* pageXChange is touchBank.currentPageX - touchBank.previousPageX
handleResponderMove(c, pageXChange) ==
    LET change == QMul(QDiv(QInt(pageXChange), QInt(c.width)),
                       QSub(c.baseRange[2], c.baseRange[1]))
        newMinX == QSub(c.minX, change)
        newMaxX == QSub(c.maxX, change)
    IN  IF /\ QLeq(QInt(c.timestamps[1]), newMinX)
           /\ QLeq(newMaxX, QInt(c.timestamps[Len(c.timestamps)]))
        THEN [c EXCEPT !.minX = newMinX, !.maxX = newMaxX]
        ELSE c

handlePinchGestureEventUnguarded(c, event) ==
    LET oldRange == QSub(c.baseRange[2], c.baseRange[1])
        newRange == QMul(oldRange, QDiv(QInt(1), event.scale))
        change == QSub(newRange, oldRange)
        focalPoint == QDiv(QInt(event.focalX), QInt(c.width))
        newMinX == QSub(c.minX, QMul(change, focalPoint))
        newMaxX == QAdd(c.maxX, QMul(change, QSub(QInt(1), focalPoint)))
    IN  IF QLess(QAbs(change), QDiv(oldRange, QInt(100)))
        THEN c
        ELSE [c EXCEPT
                 !.minX = IF QLeq(QInt(c.timestamps[1]), newMinX) THEN newMinX ELSE @,
                 !.maxX = IF QLeq(newMaxX, QInt(c.timestamps[Len(c.timestamps)]))
                          THEN newMaxX ELSE @]

handlePinchGestureEvent(c, event) ==
    LET oldRange == QSub(c.baseRange[2], c.baseRange[1])
        newRange == QMul(oldRange, QDiv(QInt(1), event.scale))
        change == QSub(newRange, oldRange)
        focalPoint == QDiv(QInt(event.focalX), QInt(c.width))
        newMinX == QSub(c.minX, QMul(change, focalPoint))
        newMaxX == QAdd(c.maxX, QMul(change, QSub(QInt(1), focalPoint)))
    IN  IF \/ QLess(QSub(newMaxX, newMinX), QMul(QInt(2), c.minInterval))
           \/ QLess(QAbs(change), QDiv(oldRange, QInt(100)))
        THEN c
        ELSE [c EXCEPT
                 !.minX = IF QLeq(QInt(c.timestamps[1]), newMinX) THEN newMinX ELSE @,
                 !.maxX = IF QLeq(newMaxX, QInt(c.timestamps[Len(c.timestamps)]))
                          THEN newMaxX ELSE @]

handleStateChange(c, event) ==
    IF event.oldState = "ACTIVE"
    THEN [c EXCEPT !.baseRange = <<c.minX, c.maxX>>]
    ELSE c

\* the ends of the window are fractions the model follows
Followed(c) == c.minX[2] <= MaxDenominator /\ c.maxX[2] <= MaxDenominator

\* props.data changes (or the Chart is mounted with it)
ChartData ==
    \E timestamps \in ChartTimestamps :
        /\ chart' = timestampsEffect(chart, timestamps)
        /\ UNCHANGED <<screenVars, received, modelVars>>

\* onLayout
ChartLayout ==
    \E width \in Widths :
        /\ chart' = [chart EXCEPT !.width = width]
        /\ UNCHANGED <<screenVars, received, modelVars>>

\* onResponderMove.  Chart.js reads Platform without importing it: where no
\* global of that name exists the handler throws before it sets anything.
ChartDrag ==
    \E pageXChange \in PageXChanges, platform \in {"undefined", "defined"} :
        /\ chart.timestamps # <<>>
        /\ chart.width > 0
        /\ \E c \in {IF platform = "defined"
                      THEN handleResponderMove(chart, pageXChange)
                      ELSE chart} :
               /\ Followed(c)
               /\ chart' = c
        /\ UNCHANGED <<screenVars, received, modelVars>>

\* onGestureEvent of the pinch, with the focal point inside the chart
ChartPinch ==
    \E scale \in PinchScales, focalX \in 0..chart.width :
        /\ chart.timestamps # <<>>
        /\ chart.width > 0
        /\ \E c \in {handlePinchGestureEvent(chart,
                          [scale |-> scale, focalX |-> focalX])} :
               /\ Followed(c)
               /\ chart' = c
        /\ UNCHANGED <<screenVars, received, modelVars>>

\* onHandlerStateChange of the pinch
ChartPinchState ==
    \E oldState \in GestureStates :
        /\ chart.timestamps # <<>>
        /\ chart' = handleStateChange(chart, [oldState |-> oldState])
        /\ UNCHANGED <<screenVars, received, modelVars>>

(***************************************************************************)
(* The Model view: zoom and baseZoom, pinched and reset.                   *)
(***************************************************************************)
\* event.scale of the pinch: squares, so that their roots are fractions
ZoomScales ==
    {Q(1, 25), Q(1, 4), Q(4, 9), Q(9, 4), Q(4, 1), Q(25, 1),
     Q(2601, 2500), Q(10201, 10000)}

ModelHandlePinchGestureEventUnlimited(z, base, event) ==
    LET newZoom == QMul(base, QSqrt(event.scale))
    IN  IF /\ QLess(Q(2, 100), QAbs(QSub(newZoom, z)))
           /\ QLess(Q(2, 10), newZoom)
        THEN newZoom
        ELSE z

\* handlePinchGestureEvent of Model: the zoom after the event
ModelHandlePinchGestureEvent(z, base, event) ==
    LET newZoom == QMul(base, QSqrt(event.scale))
    IN  IF /\ QLess(Q(2, 100), QAbs(QSub(newZoom, z)))
           /\ QLess(Q(2, 10), newZoom)
           /\ QLess(newZoom, QInt(5))
        THEN newZoom
        ELSE z

\* handleStateChange of Model: the baseZoom after the event
ModelHandleStateChange(z, base, event) ==
    IF event.oldState = "ACTIVE" THEN z ELSE base

ModelPinchOf(scale) ==
    /\ zoom' = ModelHandlePinchGestureEvent(zoom, baseZoom, [scale |-> scale])
    /\ zoom'[1] <= MaxTerm /\ zoom'[2] <= MaxTerm
    /\ UNCHANGED <<screenVars, received, index, sensorColours, baseZoom, chartVars>>

\* onGestureEvent of the pinch
ModelPinch == \E scale \in ZoomScales : ModelPinchOf(scale)

\* onHandlerStateChange of the pinch
ModelPinchState ==
    \E oldState \in GestureStates :
        /\ baseZoom' = ModelHandleStateChange(zoom, baseZoom, [oldState |-> oldState])
        /\ UNCHANGED <<screenVars, received, index, sensorColours, zoom, chartVars>>

\* onPress of the Reset button
ModelReset ==
    /\ zoom' = QInt(1)
    /\ baseZoom' = QInt(1)
    /\ UNCHANGED <<screenVars, received, index, sensorColours, chartVars>>

(***************************************************************************)
(* Claims about the Model view (SpecModel).                                *)
(***************************************************************************)
\* the readings of the sample shown, with the colour of their sensor
ShownReadings ==
    {[value |-> r.value, colour |-> sensorColours[r.name]] :
        r \in {shownSample[1].readings[k] : k \in 1..Len(shownSample[1].readings)}}

\* C5: for a scale [min, max] with min < max, a value strictly between min
\* and max is coloured hsl(h,100%,50%) with h = (1 - (value - min)/(max - min))
\* * 270, so 0 < h < 270 and h strictly decreases as the value increases;
\* a value <= min or >= max is coloured grey.
C5_MapColour ==
    LET min == modelOptions.scale[1]
        max == modelOptions.scale[2]
        Inside(r) == min < r.value /\ r.value < max
    IN  /\ min < max
        /\ \A r \in ShownReadings :
              IF Inside(r)
              THEN /\ r.colour = hsl(r.colour.hue)
                   /\ r.colour.hue[2] > 0
                   /\ r.colour.hue[1] * (max - min)
                         = 270 * (max - r.value) * r.colour.hue[2]
                   /\ 0 < r.colour.hue[1]
                   /\ r.colour.hue[1] < 270 * r.colour.hue[2]
              ELSE r.colour = grey
        /\ \A r1, r2 \in ShownReadings :
              (Inside(r1) /\ Inside(r2) /\ r1.value < r2.value)
                 => r1.colour.hue[1] * r2.colour.hue[2]
                       > r2.colour.hue[1] * r1.colour.hue[2]

\* the sample shown has two readings inside the scale, coloured differently,
\* after the slider has moved
C5_Witness ==
    /\ index = 1
    /\ \E r1, r2 \in ShownReadings :
          /\ r1.value < r2.value
          /\ modelOptions.scale[1] < r1.value
          /\ r2.value < modelOptions.scale[2]
          /\ r1.colour # r2.colour
          /\ r1.colour # grey /\ r2.colour # grey

(***************************************************************************)
(* Claims about the live and historical modes (Spec).                      *)
(***************************************************************************)
liveDataType == screenState.liveDataType
packageServerName == props.packageServerName

\* C1: after an update of the live status in which liveStatus.packages does
\* not contain props.packageServerName, liveMode is false and live is false,
\* whatever liveMode was before.
C1_NotLiveSetsHistorical ==
    [][(LiveStatusUpdate /\ packageServerName \notin liveStatus'.packages)
          => (~liveMode' /\ ~live')]_vars

\* a live session was started (its sensor-name fetch is still awaited) and
\* the package is no longer live: the screen is in historical mode
C1_Witness ==
    /\ packageServerName \notin liveStatus.packages
    /\ sensorCalls # <<>>
    /\ ~liveMode /\ ~live /\ sockets = {}

\* in every state: at most one WebSocket is open, only while liveMode is true,
\* and liveData holds samples of the open socket only
C2_OneSocket ==
    /\ Cardinality(sockets) <= 1
    /\ sockets # {} => liveMode
    /\ sockets = {} => liveData = <<>>
    /\ \A k \in 1..Len(liveData) :
          /\ liveData[k].dataType = liveDataType
          /\ liveData[k].package = packageServerName

C2_DepsChange ==
    \/ liveMode' # liveMode
    \/ liveDataType' # liveDataType
    \/ packageServerName' # packageServerName

\* C2: at most one WebSocket is open, a WebSocket is open only while liveMode
\* is true, and every change of liveMode, liveDataType or packageServerName
\* closes the previous WebSocket and resets liveData, so that liveData holds
\* samples of the open socket only.
C2_WebSocketDiscipline ==
    /\ []C2_OneSocket
    /\ [][C2_DepsChange => (sockets \cap sockets' = {} /\ liveData' = <<>>)]_vars

\* a live session of the second data type holds samples of its socket
C2_Witness ==
    /\ liveMode /\ liveDataType = "raw"
    /\ Cardinality(sockets) = 1
    /\ liveData # <<>>

\* C4: when fetchSensorNames fails, the "Live data error" alert is raised and
\* the screen ends in historical mode with the WebSocket closed and liveData
\* empty.
C4_SensorNamesFailure ==
    [][FetchSensorNamesRejected
          => (/\ alert' = "Live data error"
              /\ ~liveMode'
              /\ sockets' = {}
              /\ liveData' = <<>>)]_vars

\* the alert was raised for a package that is still live
C4_Witness ==
    /\ alert = "Live data error"
    /\ live /\ ~liveMode
    /\ sockets = {} /\ liveData = <<>>

\* C6 (as claimed): every step that brings the screen of a live package into
\* live mode with liveDataType "raw" sets mode to 1, whether "raw" is selected
\* in live mode or live mode is enabled with "raw" selected.
C6_LiveRawIsChart ==
    [][(/\ live' /\ liveMode' /\ liveDataType' = "raw"
        /\ ~(liveMode /\ liveDataType = "raw"))
          => mode' = 1]_vars

\* C7 (as claimed): after the screen of a live package enters live mode, or
\* liveDataType changes in live mode, the colour scale is absolute and the
\* temperature overlay is off.
C7_LiveOptions ==
    [][(/\ live' /\ liveMode'
        /\ (~liveMode \/ liveDataType' # liveDataType))
          => (/\ modelOptions'.colourMode = 1
              /\ modelOptions'.scale = modelColourScale[liveDataType']
              /\ ~chartOptions'.showTemperature)]_vars

(***************************************************************************)
(* Claims about refresh (SpecRefresh, SpecOverlap).                        *)
(***************************************************************************)
RefreshFails(i) ==
    FetchDataEmpty(i) \/ FetchDataFails(i) \/ FetchTemperatureFails(i)

\* C3 (as claimed): a refresh call that fails at any step raises the "Refresh
\* error" alert and has left data, dataRange, mode, screenState, chartOptions
\* and modelOptions as they were, in the failing step and in every step of
\* the call before it.
C3_FailedRefreshLeavesState ==
    [][\A i \in 1..Len(refreshCalls) :
          RefreshFails(i)
             => (/\ alert' = "Refresh error"
                 /\ refreshCalls[i].untouched
                 /\ Watched(Hooks)' = Watched(Hooks))]_vars

\* C9 (as claimed): isLoading is true exactly while a refresh is in flight.
C9_LoadingWhileInFlight == isLoading <=> refreshCalls # <<>>

\* C10 (as claimed): the continuations of refresh and of setSensorNames keep
\* the options the Menu has set since the call: refresh changes only
\* chartOptions.sensors, chartOptions.temperatureData and modelOptions.scale,
\* setSensorNames only chartOptions.sensors and chartOptions.showTemperature,
\* and liveDataType keeps the value last set.
C10_OptionsNotLost ==
    [][/\ (FetchDataResolved \/ FetchTemperatureResolved)
             => (/\ modelOptions'.showContext = modelOptions.showContext
                 /\ modelOptions'.colourMode = modelOptions.colourMode
                 /\ chartOptions'.showTemperature = chartOptions.showTemperature
                 /\ liveDataType' = liveDataType)
       /\ FetchSensorNamesResolved
             => (/\ modelOptions' = modelOptions
                 /\ chartOptions'.temperatureData = chartOptions.temperatureData
                 /\ liveDataType' = liveDataType)]_vars

(***************************************************************************)
(* Claims about the live-data buffer (SpecLive).                           *)
(***************************************************************************)
IsSuffix(s, t) ==
    /\ Len(s) <= Len(t)
    /\ s = SubSeq(t, Len(t) - Len(s) + 1, Len(t))

\* C8: liveData never holds more than 31 samples and is a suffix of the
\* received samples in arrival order; a message received while liveData holds
\* more than 30 samples replaces the buffer with the new sample, any other
\* message appends the new sample.
C8_LiveBuffer ==
    /\ [](Len(liveData) <= LiveBufferLimit + 1 /\ IsSuffix(liveData, received))
    /\ [][WsMessageLogged
             => LET newSample == received'[Len(received')]
                IN  IF Len(liveData) >= LiveBufferLimit + 1
                    THEN liveData' = <<newSample>>
                    ELSE liveData' = liveData \o <<newSample>>]_vars

\* the buffer was full and the next message replaced it
C8_Witness ==
    /\ Len(received) = LiveBufferLimit + 2
    /\ liveData = <<received[Len(received)]>>
    /\ liveData[1].value = LiveBufferLimit + 2


(***************************************************************************)
(* Spec: the live and historical modes of the Screen, its effects, its     *)
(* WebSocket and the Menu.                                                 *)
(***************************************************************************)
Next ==
    \/ LiveStatusUpdate
    \/ PackageServerNameChange
    \/ MenuSetMode
    \/ MenuSetLiveMode
    \/ MenuSetLiveDataType
    \/ MenuSetShowTemperature
    \/ MenuSetShowContext
    \/ MenuSetColourMode
    \/ FetchSensorNamesResolved
    \/ FetchSensorNamesRejected
    \/ WsMessage

Spec == Init /\ [][Next]_vars

(***************************************************************************)
(* SpecRefresh: one refresh at a time, the Menu, and the live mode of a    *)
(* package that is live.                                                   *)
(***************************************************************************)
InitOne ==
    /\ Init
    /\ props.packageServerName = "p1"
    /\ liveStatus.packages = {"p1"}

NextRefresh ==
    \/ Refresh
    \/ FetchDataResolved
    \/ FetchDataRejected
    \/ FetchTemperatureResolved
    \/ FetchTemperatureRejected
    \/ MenuSetMode
    \/ MenuSetLiveMode
    \/ MenuSetLiveDataType
    \/ MenuSetShowTemperature
    \/ MenuSetShowContext
    \/ MenuSetColourMode
    \/ FetchSensorNamesResolved
    \/ FetchSensorNamesRejected

SpecRefresh == InitOne /\ [][NextRefresh]_vars

(***************************************************************************)
(* SpecOverlap: refresh calls that overlap.                                *)
(***************************************************************************)
NextOverlap ==
    \/ RefreshOverlapping
    \/ FetchDataResolved
    \/ FetchDataRejected
    \/ FetchTemperatureResolved
    \/ FetchTemperatureRejected

SpecOverlap == InitOne /\ [][NextOverlap]_vars

(***************************************************************************)
(* SpecLive: the live sessions of a package that is live and the messages  *)
(* of their WebSockets, recorded.                                          *)
(***************************************************************************)
NextLive ==
    \/ MenuSetLiveMode
    \/ FetchSensorNamesResolved
    \/ FetchSensorNamesRejected
    \/ WsMessageLogged

SpecLive == InitOne /\ [][NextLive]_vars

(***************************************************************************)
(* SpecRange: refresh, one call at a time, of data whose readings vary,    *)
(* with the colour mode set from the Menu.                                 *)
(***************************************************************************)
NextRange ==
    \/ Refresh
    \/ FetchDataRanged
    \/ FetchTemperatureResolved
    \/ MenuSetColourMode

SpecRange == InitOne /\ [][NextRange]_vars

(***************************************************************************)
(* Claims about the range refresh computes (SpecRange).                    *)
(***************************************************************************)
\* range is <<lowest, highest>> of the readings of all samples
IsRangeOf(range, samples) ==
    LET values == UNION {{samples[k].readings[j].value :
                              j \in 1..Len(samples[k].readings)} :
                            k \in 1..Len(samples)}
    IN  /\ range[1] \in values
        /\ range[2] \in values
        /\ \A v \in values : range[1] <= v /\ v <= range[2]

NextChart ==
    \/ ChartData
    \/ ChartLayout
    \/ ChartDrag
    \/ ChartPinch
    \/ ChartPinchState

SpecChart == InitOne /\ [][NextChart]_vars

(***************************************************************************)
(* Claims about the window of the Chart (SpecChart).                       *)
(***************************************************************************)
first == QInt(chart.timestamps[1])
last == QInt(chart.timestamps[Len(chart.timestamps)])

WindowInRange ==
    /\ QLeq(first, chart.minX)
    /\ QLess(chart.minX, chart.maxX)
    /\ QLeq(chart.maxX, last)

\* C12 (as claimed): with non-empty timestamps the window stays inside the
\* time range of the data and is well-formed:
\* timestamps[0] <= minX < maxX <= timestamps[last].
C12_WindowInRange == chart.timestamps # <<>> => WindowInRange

\* C12: with two or more timestamps in increasing order the window stays
\* inside the time range of the data and is well-formed; with one timestamp
\* the window is that timestamp, minX = maxX = timestamps[0].
C12_WindowInRangeOfSeveral ==
    /\ (/\ Len(chart.timestamps) >= 2
        /\ \A k \in 1..(Len(chart.timestamps) - 1) :
               chart.timestamps[k] < chart.timestamps[k + 1])
          => WindowInRange
    /\ Len(chart.timestamps) = 1
          => (chart.minX = first /\ chart.maxX = first)

\* after pinches and drags the window lies strictly inside the time range and
\* differs from the range the last pinch started from
C12_Witness ==
    /\ Len(chart.timestamps) >= 3
    /\ QLess(first, chart.minX)
    /\ QLess(chart.maxX, last)
    /\ chart.baseRange # <<chart.minX, chart.maxX>>
    /\ chart.baseRange # <<first, last>>

\* the change of range of a pinch event and the width of the window it would
\* produce
oldRangeOf == QSub(chart.baseRange[2], chart.baseRange[1])
changeOf(scale) == QSub(QDiv(oldRangeOf, scale), oldRangeOf)
widthAfter(scale) == QAdd(QSub(chart.maxX, chart.minX), changeOf(scale))

NextZoom ==
    \/ ModelPinch
    \/ ModelPinchState
    \/ ModelReset

SpecZoom == InitOne /\ [][NextZoom]_vars

(***************************************************************************)
(* Claims about the zoom of the Model (SpecZoom).                          *)
(***************************************************************************)
ZoomInRange(z) == QLess(Q(2, 10), z) /\ QLess(z, QInt(5))

\* C14: zoom and baseZoom stay strictly between 0.2 and 5; a pinch event sets
\* zoom to baseZoom * sqrt(scale) when that value is in (0.2, 5) and differs
\* from the current zoom by more than 0.02, and leaves zoom unchanged
\* otherwise.
C14_ZoomInRange ==
    /\ [](ZoomInRange(zoom) /\ ZoomInRange(baseZoom))
    /\ [][\A scale \in ZoomScales :
             ModelPinchOf(scale)
                => LET newZoom == QMul(baseZoom, QSqrt(scale))
                   IN  zoom' = IF /\ ZoomInRange(newZoom)
                                  /\ \/ QLess(Q(2, 100), QSub(newZoom, zoom))
                                     \/ QLess(Q(2, 100), QSub(zoom, newZoom))
                               THEN newZoom
                               ELSE zoom]_vars

\* a pinch is in progress from a zoom other than 1 and has brought the zoom
\* above 2.5, from where doubling it is refused
C14_Witness ==
    /\ zoom # baseZoom
    /\ baseZoom # QInt(1)
    /\ QLess(Q(5, 2), zoom)
====
